---- MODULE Spec2Model ----
(***************************************************************************)
(* One provisioning run of utils/s3_ssl_utils.py: set_s3_ssl and the       *)
(* functions it calls (registering_acme_account, creating_acme_order,      *)
(* order_auth, update_certs), together with the object-storage client of   *)
(* utils/linode_utils.py.  Every remote call is one step; its outcome is   *)
(* chosen by the remote party: a success status, a non-success status      *)
(* (raise_for_status raises requests.HTTPError) or a transport failure     *)
(* (another requests exception, which no handler of the program catches).  *)
(* Strings the program computes on are sequences of text fragments.  LOG    *)
(* is taken to be a working logger; logging is not part of the state.      *)
(***************************************************************************)
EXTENDS Integers, Sequences, FiniteSets, TLC

\* ---- bounds ------------------------------------------------------------
MaxAuths == 2
MaxChallenges == 1
\* status fetches one poll_until_not makes before it gives up
PollLimit == 2

\* ---- values ------------------------------------------------------------
Http01 == <<"http", "-01">>
Dns01 == <<"dns", "-01">>
ChallengeTypes == {Http01, Dns01}
\* values of the parameter acme_supported_challenges (a str)
SupportedConfigs == {Http01}
\* the token of challenge j of authorization i: the authority draws every
\* token at random, so no two challenges share one
AuthChars == <<"a", "b", "c", "d">>
ChalChars == <<"+", "_", " ", "~">>
Token(i, j) == <<AuthChars[i], ChalChars[j]>>
KeySizes == {1024, 2048}
Outcomes == {"ok", "http_error", "conn_error"}
ChallengeStatuses == {"pending", "processing", "valid", "invalid"}
OrderStatuses == {"pending", "ready", "processing", "valid", "invalid"}
\* the statuses poll_until_not(transient) can return on
Terminal(statuses, transient) == statuses \ transient
NoName == <<>>
NoExc == [kind |-> "none", at |-> "none"]

SeqsUpTo(S, n) == UNION {[1..k -> S] : k \in 0..n}
\* the challenge types of the authorizations of an order
OrderShapes == SeqsUpTo(SeqsUpTo(ChallengeTypes, MaxChallenges), MaxAuths)
\* order.authorizations: each a list of challenges
OrderOf(shape) ==
  [i \in 1..Len(shape) |->
     [j \in 1..Len(shape[i]) |-> [type |-> shape[i][j], token |-> Token(i, j)]]]
Orders == {OrderOf(shape) : shape \in OrderShapes}
Tokens == {Token(i, j) : i \in 1..MaxAuths, j \in 1..MaxChallenges}

\* ---- pure functions ----------------------------------------------------
\* urllib.parse.quote with its default safe="/": unreserved characters and
\* "/" are kept, every other character becomes %XX
Unreserved == {"a", "b", "c", "d", "/", "-", "_", ".", "~"}
PercentEncode(c) == IF c = "+" THEN <<"%2B">> ELSE <<"%20">>
RECURSIVE quote(_)
quote(s) ==
  IF s = <<>> THEN <<>>
  ELSE (IF Head(s) \in Unreserved THEN <<Head(s)>> ELSE PercentEncode(Head(s)))
       \o quote(Tail(s))

ObjName(token) == <<"/.well-known/acme-challenge/">> \o quote(token)

\* Python's `x in s` on two str: x occurs in s as a substring
IsSubstring(x, s) ==
  \E i \in 0..(Len(s) - Len(x)) : SubSeq(s, i + 1, i + Len(x)) = x

\* the for/else of order_auth: index of the challenge the loop breaks on,
\* 0 when the loop runs to its end (the else branch)
RECURSIVE FirstFrom(_, _, _)
FirstFrom(chs, sup, i) ==
  IF i > Len(chs) THEN 0
  ELSE IF IsSubstring(chs[i].type, sup) THEN i
  ELSE FirstFrom(chs, sup, i + 1)

\* variant: without the else branch the loop variable keeps the last
\* challenge of the list
SelectChallengeMutLast(chs, sup) ==
  IF FirstFrom(chs, sup, 1) = 0 THEN Len(chs) ELSE FirstFrom(chs, sup, 1)

SelectChallenge(chs, sup) == FirstFrom(chs, sup, 1)

\* the buckets the storage provider can list: the one of the run, one of
\* another cluster and one of another label
TargetBucket == [cluster |-> "s3_cluster", label |-> "s3_label"]
OtherCluster == [cluster |-> "other", label |-> "s3_label"]
OtherLabel == [cluster |-> "s3_cluster", label |-> "other"]
AllBuckets == {TargetBucket, OtherCluster, OtherLabel}

\* variant: the filter compares the label only
MatchingBucketsMutLabelOnly(listing) ==
  {b \in listing : b.label = TargetBucket.label}

\* the list comprehension of set_s3_ssl over object_storage.buckets()
MatchingBuckets(listing) ==
  {b \in listing :
     b.cluster = TargetBucket.cluster /\ b.label = TargetBucket.label}

\* ---- control structure of order_auth ----------------------------------
\* the remote calls and local checks made for one authorization, by name
AuthSteps ==
  {"put_url", "put", "acl", "head", "respond", "poll", "check_status",
   "cleanup_url", "cleanup_delete"}

\* variant: the poll of the challenge stands outside the try/finally
InCleanupRegionMutNoPoll(step) ==
  step \in {"acl", "head", "respond", "check_status"}

\* variant: the try/finally opened only around respond and poll
InCleanupRegionMutNarrow(step) == step \in {"respond", "poll", "check_status"}

\* the statements inside `try:` of the try/finally statement
InCleanupRegion(step) ==
  step \in {"acl", "head", "respond", "poll", "check_status"}

\* variant: the cleanup without its except clause
CatchesHTTPErrorMutNoCleanupHandler(step) ==
  step \in {"put_url", "put", "head", "respond", "poll"}

\* the calls that stand in a try block with `except requests.HTTPError`
CatchesHTTPError(step) ==
  step \in {"put_url", "put", "head", "respond", "poll",
            "cleanup_url", "cleanup_delete"}

\* variant: the handler of the HEAD check logs and goes on
HandlerReturnsMutHeadContinues(step) ==
  step \in {"put_url", "put", "respond", "poll"}

\* the except handlers that end in `return 1`; the handler of the cleanup
\* only logs a warning
HandlerReturns(step) == step \in {"put_url", "put", "head", "respond", "poll"}

\* the statement that follows a step that succeeded
NextPc(step) ==
  CASE step = "put_url" -> "put"
    [] step = "put" -> "acl"
    [] step = "acl" -> "head"
    [] step = "head" -> "respond"
    [] step = "respond" -> "poll"
    [] step = "poll" -> "check_status"
    [] step = "cleanup_url" -> "cleanup_delete"
    [] step = "cleanup_delete" -> "after_finally"

\* the statement that follows the try statement a step stands in, reached
\* when its handler does not return
AfterTry(step) ==
  CASE step \in {"put_url", "put"} -> "acl"
    [] step = "head" -> "respond"
    [] step \in {"respond", "poll"} -> "check_status"
    [] step \in {"cleanup_url", "cleanup_delete"} -> "after_finally"

\* how a step that did not succeed completes: its handler returns 1, its
\* handler logs and goes on, or the exception leaves the statement
Completion(step, o) ==
  IF o = "http_error" /\ CatchesHTTPError(step)
  THEN (IF HandlerReturns(step) THEN "return1" ELSE "swallow")
  ELSE "raise"

\* variant: any status that ends the poll is accepted
ChallengeValidMutNotPending(s) == s \notin {"pending", "processing"}

\* `challenge.status != "valid"` is false
ChallengeValid(s) == s = "valid"

\* variant: only the status invalid is refused
OrderValidMutNotInvalid(s) == s # "invalid"

\* `order.status != "valid"` is false
OrderValid(s) == s = "valid"

\* ---- state -------------------------------------------------------------
VARIABLES
  pc,                         \* the statement the run is at
  bucket_access_key,          \* TRUE when the secret is set
  acme_supported_challenges,
  s3_key_size,
  private_key,
  http_open,                  \* the HTTP sessions that are open
  account,
  authorizations,             \* order.authorizations
  idx,                        \* position of the for loop of order_auth
  challenge,                  \* the loop variable after the inner for
  status,                     \* challenge.status
  obj_name,
  pending,                    \* what the try body left for after finally
  exc,                        \* the exception in flight
  order_auth_status,
  order_status,
  certificate,
  update_certs_status,        \* what update_certs returned
  ssl_slot,                   \* the certificate installed on the bucket
  bucket,                     \* names of the objects in the bucket
  calls,                      \* every remote call made, in order
  result                      \* how set_s3_ssl ended

params == <<bucket_access_key, acme_supported_challenges, s3_key_size>>
runVars ==
  <<private_key, account, authorizations, order_status, certificate,
    update_certs_status, ssl_slot>>
authVars == <<idx, challenge, status, obj_name>>
ctlVars == <<pc, pending, exc, order_auth_status, result, http_open>>
vars == <<params, runVars, authVars, ctlVars, bucket, calls>>

NoChallenge == [type |-> <<>>, token |-> <<>>]
NoKey == [id |-> "none", size |-> 0]
\* the value of a status variable whose function has not returned
NotReturned == 0 - 1
Running == [kind |-> "running", val |-> 0]
OldCert == [certificate |-> "old_cert", private_key |-> "old_key"]
NoCert == [certificate |-> "none", private_key |-> "none"]

Init ==
  /\ pc = "start"
  /\ bucket_access_key \in BOOLEAN
  /\ acme_supported_challenges \in SupportedConfigs
  /\ s3_key_size \in KeySizes
  /\ private_key = NoKey
  /\ http_open = {}
  /\ account = "none"
  /\ authorizations = <<>>
  /\ idx = 0
  /\ challenge = NoChallenge
  /\ status = "none"
  /\ obj_name = NoName
  /\ pending = "none"
  /\ exc = NoExc
  /\ order_auth_status = NotReturned
  /\ order_status = "none"
  /\ certificate = "none"
  /\ update_certs_status = NotReturned
  /\ ssl_slot = OldCert
  /\ bucket = {}
  /\ calls = <<>>
  /\ result = Running

\* ---- control transfers ---------------------------------------------------
\* a remote call: the operation, the authorization it is made for (0: none),
\* the object it names, its outcome and the status a status fetch read
Call(op, a, n, o, st) ==
  [op |-> op, auth |-> a, name |-> n, res |-> o, st |-> st]
Log(op, o) == calls' = Append(calls, Call(op, 0, NoName, o, "none"))
LogAuth(op, o) == calls' = Append(calls, Call(op, idx, obj_name, o, "none"))
LogPoll(op, a, n, o, st) ==
  calls' = Append(calls, Call(op, a, n, o, IF o = "ok" THEN st ELSE "none"))

Goto(p) ==
  /\ pc' = p
  /\ UNCHANGED <<pending, exc, order_auth_status, result, http_open>>

\* variant: __exit__ of the storage client leaves its session open
StorageExitMutNoClose(open) == open

\* LinodeObjectStorageClient.__exit__: self.http.close()
StorageExit(open) == open \ {"object_storage"}

\* AcmeClient.__exit__ closes the session of the client to the authority
AcmeExit(open) == open \ {"acme_client"}

\* leaving the with block: the ExitStack calls what was pushed on it, last
\* pushed first; before the with block no session is open
ExitStackClose(open) == StorageExit(AcmeExit(open))

\* set_s3_ssl ends; leaving the with block closes what the ExitStack holds
EndRun(kind, val, e) ==
  /\ pc' = "done"
  /\ result' = [kind |-> kind, val |-> val]
  /\ exc' = e
  /\ http_open' = ExitStackClose(http_open)
  /\ UNCHANGED <<pending, order_auth_status>>

\* order_auth returns 1, creating_acme_order returns 1, set_s3_ssl exits
OrderAuthReturn1 ==
  /\ pc' = "done"
  /\ order_auth_status' = 1
  /\ result' = [kind |-> "exit", val |-> 1]
  /\ http_open' = ExitStackClose(http_open)
  /\ UNCHANGED <<pending, exc>>

\* an exception nothing catches leaves every function of the run
RaiseOut(e) == EndRun("raise", 1, e)

EnterFinally(p, e) ==
  /\ pc' = "cleanup_url"
  /\ pending' = p
  /\ exc' = e
  /\ UNCHANGED <<order_auth_status, result, http_open>>

\* a step of order_auth did not succeed
Abort(step, c, e) ==
  IF c = "swallow" THEN Goto(AfterTry(step))
  ELSE IF InCleanupRegion(step)
  THEN EnterFinally(c, IF c = "raise" THEN e ELSE exc)
  ELSE IF c = "return1" THEN OrderAuthReturn1
  ELSE RaiseOut(e)

After(step, o) ==
  IF o = "ok" THEN Goto(NextPc(step))
  ELSE Abort(step, Completion(step, o), [kind |-> o, at |-> step])

\* ---- set_s3_ssl up to the order ------------------------------------------
\* variant: the run goes on without the secret
GetSecretsMutNoCheck ==
  /\ pc = "start"
  /\ Goto("keys")
  /\ UNCHANGED <<params, runVars, authVars, bucket, calls>>

\* the secret is looked up; without it the run returns 1
GetSecrets ==
  /\ pc = "start"
  /\ IF bucket_access_key
     THEN Goto("keys")
     ELSE EndRun("return", 1, exc)
  /\ UNCHANGED <<params, runVars, authVars, bucket, calls>>

\* the account key is read, the key of the run and the CSR are generated
GenerateKeyMaterial ==
  /\ pc = "keys"
  /\ \E readable \in BOOLEAN :
       IF readable
       THEN /\ private_key' = [id |-> "run_key", size |-> s3_key_size]
            /\ Goto("open")
       ELSE /\ private_key' = private_key
            /\ RaiseOut([kind |-> "os_error", at |-> "keys"])
  /\ UNCHANGED <<params, account, authorizations, order_status, certificate,
                 update_certs_status, ssl_slot, authVars, bucket, calls>>

\* both clients are built and pushed on the ExitStack
OpenSessions ==
  /\ pc = "open"
  /\ pc' = "buckets"
  /\ http_open' = {"object_storage", "acme_client"}
  /\ UNCHANGED <<pending, exc, order_auth_status, result>>
  /\ UNCHANGED <<params, runVars, authVars, bucket, calls>>

\* object_storage.buckets() and the filter on cluster and label; the record
\* of the call keeps whether the target bucket was in the list
ListBuckets ==
  /\ pc = "buckets"
  /\ \E o \in Outcomes, listing \in SUBSET AllBuckets :
       /\ LogPoll("buckets", 0, NoName, o,
                  IF TargetBucket \in listing THEN "listed" ELSE "absent")
       /\ IF o = "ok"
          THEN (IF MatchingBuckets(listing) # {} THEN Goto("register")
                ELSE EndRun("return", 1, exc))
          ELSE RaiseOut([kind |-> o, at |-> "buckets"])
  /\ UNCHANGED <<params, runVars, authVars, bucket>>

\* registering_acme_account without its `if not account` test
RegisterAccountMutNoneAccepted ==
  /\ pc = "register"
  /\ \E o \in Outcomes, acct \in {"account", "None"} :
       /\ LogPoll("new_account", 0, NoName, o, acct)
       /\ IF o = "ok"
          THEN account' = acct /\ Goto("new_order")
          ELSE IF o = "conn_error"
          THEN account' = account
               /\ RaiseOut([kind |-> o, at |-> "new_account"])
          ELSE account' = account /\ EndRun("exit", 1, exc)
  /\ UNCHANGED <<params, private_key, authorizations, order_status,
                 certificate, update_certs_status, ssl_slot, authVars,
                 bucket>>

\* registering_acme_account and the exit of set_s3_ssl on its failure; the
\* record of the call keeps what new_account returned
RegisterAccount ==
  /\ pc = "register"
  /\ \E o \in Outcomes, acct \in {"account", "None"} :
       /\ LogPoll("new_account", 0, NoName, o, acct)
       /\ IF o = "ok" /\ acct = "account"
          THEN account' = acct /\ Goto("new_order")
          ELSE IF o = "conn_error"
          THEN account' = account
               /\ RaiseOut([kind |-> o, at |-> "new_account"])
          ELSE account' = account /\ EndRun("exit", 1, exc)
  /\ UNCHANGED <<params, private_key, authorizations, order_status,
                 certificate, update_certs_status, ssl_slot, authVars,
                 bucket>>

\* acme_client.new_order at the head of creating_acme_order
NewOrder ==
  /\ pc = "new_order"
  /\ \E o \in Outcomes, auths \in Orders :
       /\ Log("new_order", o)
       /\ IF o = "ok"
          THEN authorizations' = auths /\ idx' = 1 /\ Goto("auth_loop")
          ELSE IF o = "http_error"
          THEN UNCHANGED <<authorizations, idx>> /\ EndRun("exit", 1, exc)
          ELSE UNCHANGED <<authorizations, idx>>
               /\ RaiseOut([kind |-> o, at |-> "new_order"])
  /\ UNCHANGED <<params, private_key, account, order_status, certificate,
                 update_certs_status, ssl_slot, challenge, status, obj_name,
                 bucket>>

\* ---- order_auth ------------------------------------------------------------
\* head of the for loop: the next authorization, its challenge by the inner
\* for/else, the object name; or the end of the list and `return 0`
AuthLoop ==
  /\ pc = "auth_loop"
  /\ IF idx > Len(authorizations)
     THEN /\ pc' = "finalize"
          /\ order_auth_status' = 0
          /\ UNCHANGED <<pending, exc, result, http_open>>
          /\ UNCHANGED <<challenge, status, obj_name>>
     ELSE LET sel == SelectChallenge(authorizations[idx],
                                     acme_supported_challenges)
          IN IF sel = 0
             THEN /\ OrderAuthReturn1
                  /\ UNCHANGED <<challenge, status, obj_name>>
             ELSE /\ challenge' = authorizations[idx][sel]
                  /\ status' = "pending"
                  /\ obj_name' = ObjName(authorizations[idx][sel].token)
                  /\ Goto("put_url")
  /\ UNCHANGED <<params, runVars, idx, bucket, calls>>

\* object_storage.create_object_url(..., "PUT", ...)
PutUrl ==
  /\ pc = "put_url"
  /\ \E o \in Outcomes : LogAuth("put_url", o) /\ After("put_url", o)
  /\ UNCHANGED <<params, runVars, authVars, bucket>>

\* requests.put(put_url, data); a lost response leaves either state
Put ==
  /\ pc = "put"
  /\ \E o \in Outcomes, stored \in BOOLEAN :
       /\ LogAuth("put", o)
       /\ After("put", o)
       /\ bucket' = IF o = "ok" \/ (o = "conn_error" /\ stored)
                    THEN bucket \cup {obj_name} ELSE bucket
  /\ UNCHANGED <<params, runVars, authVars>>

\* object_storage.update_object_acl(..., "public-read")
UpdateAcl ==
  /\ pc = "acl"
  /\ \E o \in Outcomes : LogAuth("acl", o) /\ After("acl", o)
  /\ UNCHANGED <<params, runVars, authVars, bucket>>

\* requests.head on the public URL of the object
HeadCheck ==
  /\ pc = "head"
  /\ \E o \in Outcomes : LogAuth("head", o) /\ After("head", o)
  /\ UNCHANGED <<params, runVars, authVars, bucket>>

\* challenge.respond()
Respond ==
  /\ pc = "respond"
  /\ \E o \in Outcomes : LogAuth("respond", o) /\ After("respond", o)
  /\ UNCHANGED <<params, runVars, authVars, bucket>>

\* challenge.poll_until_not({"processing", "pending"}): it returns on a
\* status outside the set, or raises
PollChallenge ==
  /\ pc = "poll"
  /\ \E o \in Outcomes,
        s \in Terminal(ChallengeStatuses, {"processing", "pending"}) :
       /\ LogPoll("poll", idx, obj_name, o, s)
       /\ status' = IF o = "ok" THEN s ELSE status
       /\ After("poll", o)
  /\ UNCHANGED <<params, runVars, idx, challenge, obj_name, bucket>>

\* `if challenge.status != "valid": return 1`, else the try body ends
CheckStatus ==
  /\ pc = "check_status"
  /\ IF ChallengeValid(status)
     THEN EnterFinally("none", exc)
     ELSE Abort("check_status", "return1", exc)
  /\ UNCHANGED <<params, runVars, authVars, bucket, calls>>

\* finally: object_storage.create_object_url(..., "DELETE", ...)
CleanupUrl ==
  /\ pc = "cleanup_url"
  /\ \E o \in Outcomes : LogAuth("delete_url", o) /\ After("cleanup_url", o)
  /\ UNCHANGED <<params, runVars, authVars, bucket>>

\* finally: requests.delete(delete_url); a lost response leaves either state
CleanupDelete ==
  /\ pc = "cleanup_delete"
  /\ \E o \in Outcomes, removed \in BOOLEAN :
       /\ LogAuth("delete", o)
       /\ After("cleanup_delete", o)
       /\ bucket' = IF o = "ok" \/ (o = "conn_error" /\ removed)
                    THEN bucket \ {obj_name} ELSE bucket
  /\ UNCHANGED <<params, runVars, authVars>>

\* variant: a failed authorization is skipped and the loop goes on
AfterFinallyMutContinues ==
  /\ pc = "after_finally"
  /\ CASE pending \in {"none", "return1"} ->
            idx' = idx + 1 /\ Goto("auth_loop")
       [] pending = "raise" ->
            idx' = idx /\ RaiseOut(exc)
  /\ UNCHANGED <<params, runVars, challenge, status, obj_name, bucket,
                 calls>>

\* the finally block is over: what the try body left is carried out
AfterFinally ==
  /\ pc = "after_finally"
  /\ CASE pending = "none" ->
            idx' = idx + 1 /\ Goto("auth_loop")
       [] pending = "return1" ->
            idx' = idx /\ OrderAuthReturn1
       [] pending = "raise" ->
            idx' = idx /\ RaiseOut(exc)
  /\ UNCHANGED <<params, runVars, challenge, status, obj_name, bucket,
                 calls>>

\* ---- creating_acme_order after the authorizations -----------------------
\* order.finalize(csr)
Finalize ==
  /\ pc = "finalize"
  /\ \E o \in Outcomes :
       /\ Log("finalize", o)
       /\ IF o = "ok" THEN Goto("order_poll")
          ELSE IF o = "http_error" THEN EndRun("exit", 1, exc)
          ELSE RaiseOut([kind |-> o, at |-> "finalize"])
  /\ UNCHANGED <<params, runVars, authVars, bucket>>

\* order.poll_until_not({"processing"}): it returns on a status outside the
\* set, or raises
PollOrder ==
  /\ pc = "order_poll"
  /\ \E o \in Outcomes, s \in Terminal(OrderStatuses, {"processing"}) :
       /\ LogPoll("order_poll", 0, NoName, o, s)
       /\ order_status' = IF o = "ok" THEN s ELSE order_status
       /\ IF o = "ok" THEN Goto("check_order")
          ELSE IF o = "http_error" THEN EndRun("exit", 1, exc)
          ELSE RaiseOut([kind |-> o, at |-> "order_poll"])
  /\ UNCHANGED <<params, private_key, account, authorizations, certificate,
                 update_certs_status, ssl_slot, authVars, bucket>>

\* `if order.status != "valid": return 1`
CheckOrder ==
  /\ pc = "check_order"
  /\ IF OrderValid(order_status)
     THEN Goto("certificate")
     ELSE EndRun("exit", 1, exc)
  /\ UNCHANGED <<params, runVars, authVars, bucket, calls>>

\* variant: set_s3_ssl without the exit on an int from creating_acme_order
FetchCertificateMutNoExit ==
  /\ pc = "certificate"
  /\ \E o \in Outcomes :
       /\ Log("certificate", o)
       /\ IF o = "ok"
          THEN certificate' = "new_cert" /\ Goto("delete_ssl")
          ELSE IF o = "http_error"
          THEN certificate' = certificate /\ Goto("delete_ssl")
          ELSE certificate' = certificate
               /\ RaiseOut([kind |-> o, at |-> "certificate"])
  /\ UNCHANGED <<params, private_key, account, authorizations, order_status,
                 update_certs_status, ssl_slot, authVars, bucket>>

\* order.certificate()
FetchCertificate ==
  /\ pc = "certificate"
  /\ \E o \in Outcomes :
       /\ Log("certificate", o)
       /\ IF o = "ok"
          THEN certificate' = "new_cert" /\ Goto("delete_ssl")
          ELSE IF o = "http_error"
          THEN certificate' = certificate /\ EndRun("exit", 1, exc)
          ELSE certificate' = certificate
               /\ RaiseOut([kind |-> o, at |-> "certificate"])
  /\ UNCHANGED <<params, private_key, account, authorizations, order_status,
                 update_certs_status, ssl_slot, authVars, bucket>>

\* ---- update_certs and the end of set_s3_ssl -----------------------------
\* what update_certs returns, by the outcome of its two calls ("none": the
\* call was not made)
UpdateCertsReturn(del, up) ==
  IF del = "http_error" THEN 1
  ELSE IF up = "http_error" THEN 1
  ELSE 0

\* what set_s3_ssl returns after update_certs returned r
RunReturn(r) == 0

\* delete_ssl whose HTTPError handler passes instead of returning
DeleteSslMutContinues ==
  /\ pc = "delete_ssl"
  /\ \E o \in Outcomes, removed \in BOOLEAN :
       /\ Log("delete_ssl", o)
       /\ ssl_slot' = IF o = "ok" \/ (o = "conn_error" /\ removed)
                      THEN NoCert ELSE ssl_slot
       /\ update_certs_status' = update_certs_status
       /\ IF o = "conn_error"
          THEN RaiseOut([kind |-> o, at |-> "delete_ssl"])
          ELSE Goto("upload_ssl")
  /\ UNCHANGED <<params, private_key, account, authorizations, order_status,
                 certificate, authVars, bucket>>

\* object_storage.delete_ssl; on HTTPError update_certs returns and
\* set_s3_ssl goes on to its return statement
DeleteSsl ==
  /\ pc = "delete_ssl"
  /\ \E o \in Outcomes, removed \in BOOLEAN :
       /\ Log("delete_ssl", o)
       /\ ssl_slot' = IF o = "ok" \/ (o = "conn_error" /\ removed)
                      THEN NoCert ELSE ssl_slot
       /\ IF o = "ok"
          THEN update_certs_status' = update_certs_status
               /\ Goto("upload_ssl")
          ELSE IF o = "http_error"
          THEN /\ update_certs_status' = UpdateCertsReturn(o, "none")
               /\ EndRun("return", RunReturn(UpdateCertsReturn(o, "none")),
                         exc)
          ELSE update_certs_status' = update_certs_status
               /\ RaiseOut([kind |-> o, at |-> "delete_ssl"])
  /\ UNCHANGED <<params, private_key, account, authorizations, order_status,
                 certificate, authVars, bucket>>

\* variant: update_certs is handed the account key
UploadSslMutAccountKey ==
  /\ pc = "upload_ssl"
  /\ \E o \in Outcomes, stored \in BOOLEAN :
       /\ Log("upload_ssl", o)
       /\ ssl_slot' = IF o = "ok" \/ (o = "conn_error" /\ stored)
                      THEN [certificate |-> certificate,
                            private_key |-> "account_key"]
                      ELSE ssl_slot
       /\ IF o = "conn_error"
          THEN update_certs_status' = update_certs_status
               /\ RaiseOut([kind |-> o, at |-> "upload_ssl"])
          ELSE /\ update_certs_status' = UpdateCertsReturn("ok", o)
               /\ EndRun("return", RunReturn(UpdateCertsReturn("ok", o)),
                         exc)
  /\ UNCHANGED <<params, private_key, account, authorizations, order_status,
                 certificate, authVars, bucket>>

\* object_storage.upload_ssl with the certificate and the key of the run
UploadSsl ==
  /\ pc = "upload_ssl"
  /\ \E o \in Outcomes, stored \in BOOLEAN :
       /\ Log("upload_ssl", o)
       /\ ssl_slot' = IF o = "ok" \/ (o = "conn_error" /\ stored)
                      THEN [certificate |-> certificate,
                            private_key |-> private_key.id]
                      ELSE ssl_slot
       /\ IF o = "conn_error"
          THEN update_certs_status' = update_certs_status
               /\ RaiseOut([kind |-> o, at |-> "upload_ssl"])
          ELSE /\ update_certs_status' = UpdateCertsReturn("ok", o)
               /\ EndRun("return", RunReturn(UpdateCertsReturn("ok", o)),
                         exc)
  /\ UNCHANGED <<params, private_key, account, authorizations, order_status,
                 certificate, authVars, bucket>>

Next ==
  \/ GetSecrets
  \/ GenerateKeyMaterial
  \/ OpenSessions
  \/ ListBuckets
  \/ RegisterAccount
  \/ NewOrder
  \/ AuthLoop
  \/ PutUrl
  \/ Put
  \/ UpdateAcl
  \/ HeadCheck
  \/ Respond
  \/ PollChallenge
  \/ CheckStatus
  \/ CleanupUrl
  \/ CleanupDelete
  \/ AfterFinally
  \/ Finalize
  \/ PollOrder
  \/ CheckOrder
  \/ FetchCertificate
  \/ DeleteSsl
  \/ UploadSsl

Spec == Init /\ [][Next]_vars

\* ---- the polls step by step -----------------------------------------------
\* the status fetches poll_until_not has made so far for authorization a
\* (0: for the order)
Fetches(op, a) ==
  Cardinality({i \in DOMAIN calls : calls[i].op = op /\ calls[i].auth = a})

\* poll_until_not gives up after its n-th status fetch
PollExhausted(n) == n >= PollLimit

\* challenge.poll_until_not({"processing", "pending"}), one status fetch at
\* a time: it returns on a status outside the set, goes on fetching while
\* the status is inside, and raises a timeout error when it gives up; the
\* error is a requests.HTTPError or it is not
PollChallengeIter ==
  /\ pc = "poll"
  /\ \E o \in Outcomes, s \in ChallengeStatuses, caught \in BOOLEAN :
       /\ LogPoll("poll", idx, obj_name, o, s)
       /\ status' = IF o = "ok" THEN s ELSE status
       /\ IF o # "ok" THEN After("poll", o)
          ELSE IF s \in Terminal(ChallengeStatuses, {"processing", "pending"})
          THEN Goto(NextPc("poll"))
          ELSE IF PollExhausted(Fetches("poll", idx) + 1)
          THEN Abort("poll", IF caught THEN "return1" ELSE "raise",
                     [kind |-> "timeout", at |-> "poll"])
          ELSE Goto("poll")
  /\ UNCHANGED <<params, runVars, idx, challenge, obj_name, bucket>>

\* order.poll_until_not({"processing"}), one status fetch at a time
PollOrderIter ==
  /\ pc = "order_poll"
  /\ \E o \in Outcomes, s \in OrderStatuses, caught \in BOOLEAN :
       /\ LogPoll("order_poll", 0, NoName, o, s)
       /\ order_status' = IF o = "ok" THEN s ELSE order_status
       /\ IF o = "http_error" THEN EndRun("exit", 1, exc)
          ELSE IF o = "conn_error"
          THEN RaiseOut([kind |-> o, at |-> "order_poll"])
          ELSE IF s \in Terminal(OrderStatuses, {"processing"})
          THEN Goto("check_order")
          ELSE IF PollExhausted(Fetches("order_poll", 0) + 1)
          THEN (IF caught THEN EndRun("exit", 1, exc)
                ELSE RaiseOut([kind |-> "timeout", at |-> "order_poll"]))
          ELSE Goto("order_poll")
  /\ UNCHANGED <<params, private_key, account, authorizations, certificate,
                 update_certs_status, ssl_slot, authVars, bucket>>

\* the order of scenarios A and C: one authorization, one http-01 challenge
ScenarioOrder == OrderOf(<<<<Http01>>>>)

\* acme_client.new_order answered with the order of the scenario
NewOrderScenario ==
  /\ pc = "new_order"
  /\ \E o \in Outcomes :
       /\ Log("new_order", o)
       /\ IF o = "ok"
          THEN authorizations' = ScenarioOrder /\ idx' = 1
               /\ Goto("auth_loop")
          ELSE IF o = "http_error"
          THEN UNCHANGED <<authorizations, idx>> /\ EndRun("exit", 1, exc)
          ELSE UNCHANGED <<authorizations, idx>>
               /\ RaiseOut([kind |-> o, at |-> "new_order"])
  /\ UNCHANGED <<params, private_key, account, order_status, certificate,
                 update_certs_status, ssl_slot, challenge, status, obj_name,
                 bucket>>

\* the run of the scenario with every status fetch of the polls a step
NextPoll ==
  \/ GetSecrets
  \/ GenerateKeyMaterial
  \/ OpenSessions
  \/ ListBuckets
  \/ RegisterAccount
  \/ NewOrderScenario
  \/ AuthLoop
  \/ PutUrl
  \/ Put
  \/ UpdateAcl
  \/ HeadCheck
  \/ Respond
  \/ PollChallengeIter
  \/ CheckStatus
  \/ CleanupUrl
  \/ CleanupDelete
  \/ AfterFinally
  \/ Finalize
  \/ PollOrderIter
  \/ CheckOrder
  \/ FetchCertificate
  \/ DeleteSsl
  \/ UploadSsl

\* the run is one thread: a statement that can be executed is executed
SpecPoll == Init /\ [][NextPoll]_vars /\ WF_vars(NextPoll)

TypeOK ==
  /\ pc \in {"start", "keys", "open", "buckets", "register", "new_order",
             "auth_loop", "after_finally", "finalize", "order_poll",
             "check_order", "certificate", "delete_ssl", "upload_ssl",
             "done"} \cup AuthSteps
  /\ authorizations \in Orders
  /\ idx \in 0..(MaxAuths + 1)
  /\ pending \in {"none", "return1", "raise"}
  /\ order_auth_status \in {NotReturned, 0, 1}
  /\ update_certs_status \in {NotReturned, 0, 1}
  /\ http_open \subseteq {"object_storage", "acme_client"}
  /\ bucket \subseteq {ObjName(t) : t \in Tokens}

\* ---- reading the call record ----------------------------------------------
CallIdx == DOMAIN calls
CallsOf(op, a) == {i \in CallIdx : calls[i].op = op /\ calls[i].auth = a}
Made(op) == \E i \in CallIdx : calls[i].op = op
AuthIdx == DOMAIN authorizations
CleanupOps == {"delete_url", "delete"}
StorageOps == {"put_url", "put", "acl", "delete_url", "delete"}
\* an exception left order_auth
OrderAuthRaised ==
  /\ pc = "done"
  /\ result.kind = "raise"
  /\ exc.at \in AuthSteps
\* order_auth has ended, by return or by exception
OrderAuthEnded == order_auth_status \in {0, 1} \/ OrderAuthRaised
\* no challenge of the authorization has a supported type
NoSupportedType(auth) ==
  \A j \in DOMAIN auth :
    ~IsSubstring(auth[j].type, acme_supported_challenges)
\* the status the poll of authorization a returned on was `valid`
ReachedValid(a) ==
  \E i \in CallsOf("poll", a) : calls[i].st = "valid"

\* ---- C1 ----------------------------------------------------------------------
\* C1: when order_auth has ended, every authorization has as many delete
\* attempts (requests for a DELETE URL) as publish attempts (requests for a
\* PUT URL), and the delete names the object the publish named.
C1_CleanupInvariant ==
  OrderAuthEnded =>
    \A a \in AuthIdx :
      /\ Cardinality(CallsOf("delete_url", a))
           = Cardinality(CallsOf("put_url", a))
      /\ \A i \in CallsOf("put_url", a), j \in CallsOf("delete_url", a) :
           calls[i].name = calls[j].name

\* ---- C2 ----------------------------------------------------------------------
\* C2 as stated: when order_auth has returned, the bucket holds no proof
\* object of this run.
C2_NoObjectLeft ==
  order_auth_status \in {0, 1} => bucket = {}

\* C2 as amended: when order_auth has returned, every object it uploaded had
\* a delete attempted under the same name after the upload, and an object
\* still in the bucket is one whose delete attempt got a non-success status.
C2_DeletedUnlessDeleteFailed ==
  order_auth_status \in {0, 1} =>
    /\ \A i \in CallIdx :
         (calls[i].op = "put" /\ calls[i].res = "ok") =>
           \E j \in CallIdx :
             /\ j > i
             /\ calls[j].op = "delete_url"
             /\ calls[j].name = calls[i].name
    /\ \A n \in bucket :
         \E j \in CallIdx :
           /\ calls[j].op \in CleanupOps
           /\ calls[j].name = n
           /\ calls[j].res = "http_error"

\* order_auth returned 1 after it uploaded an object and deleted it
C2_Witness ==
  /\ order_auth_status = 1
  /\ bucket = {}
  /\ \E i \in CallIdx : calls[i].op = "put" /\ calls[i].res = "ok"
  /\ \E i \in CallIdx : calls[i].op = "delete" /\ calls[i].res = "ok"

\* ---- C3 ----------------------------------------------------------------------
\* C3: set_s3_ssl returns 0 only if a certificate was issued and the upload
\* of the new certificate and key succeeded.
C3_SuccessOnlyIfInstalled ==
  (pc = "done" /\ result.kind = "return" /\ result.val = 0) =>
    /\ certificate = "new_cert"
    /\ \E i \in CallIdx : calls[i].op = "upload_ssl" /\ calls[i].res = "ok"

\* ---- C4 ----------------------------------------------------------------------
\* C4: after delete_ssl succeeded and upload_ssl failed, what update_certs
\* returns and what the run reports differ from what they are when
\* delete_ssl itself failed.
C4_PartialInstallDistinguished ==
  (/\ pc = "done"
   /\ \E i \in CallIdx : calls[i].op = "delete_ssl" /\ calls[i].res = "ok"
   /\ \E i \in CallIdx :
        calls[i].op = "upload_ssl" /\ calls[i].res = "http_error") =>
    /\ update_certs_status # UpdateCertsReturn("http_error", "none")
    /\ result # [kind |-> "return",
                 val |-> RunReturn(UpdateCertsReturn("http_error", "none"))]

\* ---- C5 ----------------------------------------------------------------------
\* C5: an authorization whose HEAD check failed has no respond call.
C5_NoRespondAfterFailedHead ==
  \A i \in CallIdx :
    (calls[i].op = "head" /\ calls[i].res # "ok") =>
      CallsOf("respond", calls[i].auth) = {}

\* the run is over and the HEAD check of an authorization got a non-success
\* status
C5_Witness ==
  /\ pc = "done"
  /\ \E i \in CallIdx : calls[i].op = "head" /\ calls[i].res = "http_error"

\* ---- C6 ----------------------------------------------------------------------
\* C6: for an authorization without a challenge of a supported type, no
\* storage call and no respond call is made, and once the loop has reached
\* it order_auth has returned 1.
C6_UnsupportedMakesNoCall ==
  \A a \in AuthIdx :
    NoSupportedType(authorizations[a]) =>
      /\ \A i \in CallIdx :
           calls[i].auth = a => calls[i].op \notin StorageOps \cup {"respond"}
      /\ (idx = a /\ pc # "auth_loop") =>
           (pc = "done" /\ order_auth_status = 1)
      /\ idx <= a

\* the second authorization has challenges but none of a supported type, and
\* order_auth returned 1 at it after the calls made for the first
C6_Witness ==
  /\ pc = "done"
  /\ order_auth_status = 1
  /\ idx = 2
  /\ Len(authorizations[2]) > 0
  /\ NoSupportedType(authorizations[2])
  /\ CallsOf("put", 1) # {}
  /\ CallsOf("put", 2) = {}

\* ---- C7 ----------------------------------------------------------------------
\* C7: when order.finalize has been called, the challenge selected for every
\* authorization of the order was last read with status valid and
\* order_auth returned 0; after order_auth returned 1 or raised, finalize
\* has not been called.
C7_FinalizeOnlyAfterAllValid ==
  /\ Made("finalize") =>
       /\ order_auth_status = 0
       /\ \A a \in AuthIdx : ReachedValid(a)
  /\ (order_auth_status = 1 \/ OrderAuthRaised) => ~Made("finalize")

\* finalize was called for an order of two authorizations
C7_Witness ==
  /\ Made("finalize")
  /\ Len(authorizations) = 2

\* ---- C8 ----------------------------------------------------------------------
\* C8: when the poll after finalize ended on a status other than valid,
\* order.certificate is never called and the run ends with the failure
\* result of creating_acme_order.
C8_NoFetchUnlessOrderValid ==
  order_status \in OrderStatuses \ {"processing", "valid"} =>
    /\ ~Made("certificate")
    /\ pc \in {"check_order", "done"}
    /\ pc = "done" => result = [kind |-> "exit", val |-> 1]

\* the order ended pending or invalid and the run is over
C8_Witness ==
  /\ pc = "done"
  /\ order_status \in {"invalid", "pending"}
  /\ Made("finalize")

\* ---- C9 ----------------------------------------------------------------------
\* C9: when the upload succeeded, the ACL update got a non-success status
\* and the delete calls succeeded, order_auth has returned 1, one delete was
\* made under the name of the object, and no respond call was made.
C9_AclFailureReturnsFailure ==
  \A i \in CallIdx :
    (/\ pc = "done"
     /\ calls[i].op = "acl"
     /\ calls[i].res = "http_error"
     /\ \E j \in CallsOf("delete", calls[i].auth) : calls[j].res = "ok") =>
      /\ order_auth_status = 1
      /\ Cardinality(CallsOf("delete", calls[i].auth)) = 1
      /\ \A j \in CallsOf("delete", calls[i].auth) :
           calls[j].name = calls[i].name
      /\ CallsOf("respond", calls[i].auth) = {}

\* ---- C10 ---------------------------------------------------------------------
\* C10: a non-success status on the DELETE URL grant or on the DELETE leaves
\* the outcome of the authorization as the try body determined it: the loop
\* goes on after an authorization that succeeded, order_auth returns 1 after
\* a handled failure, and an exception in flight goes on as it was; the
\* deletion failure is not the exception that leaves order_auth.
C10_CleanupFailureKeepsOutcome ==
  \A i \in CallIdx :
    (calls[i].op \in CleanupOps /\ calls[i].res = "http_error") =>
      LET a == calls[i].auth IN
        /\ ~(exc.kind = "http_error"
             /\ exc.at \in {"cleanup_url", "cleanup_delete"})
        /\ idx >= a
        /\ idx = a =>
             \/ pc = "after_finally"
             \/ /\ pc = "done"
                /\ pending # "none"
                /\ pending = "return1" =>
                     (order_auth_status = 1
                      /\ result = [kind |-> "exit", val |-> 1])
                /\ pending = "raise" =>
                     (order_auth_status = NotReturned
                      /\ result.kind = "raise"
                      /\ exc.at \in {"acl", "head", "respond", "poll"})
        /\ (ReachedValid(a) /\ pc # "after_finally") => idx > a

\* the loop went on to the second authorization after the delete of the
\* first one failed
C10_Witness ==
  /\ idx = 2
  /\ pc = "put_url"
  /\ \E i \in CallsOf("delete", 1) : calls[i].res = "http_error"

\* ---- C11 ---------------------------------------------------------------------
\* update_certs has been entered
UpdateCertsEntered ==
  \/ pc = "upload_ssl"
  \/ update_certs_status # NotReturned
  \/ (pc = "done" /\ exc.at \in {"delete_ssl", "upload_ssl"})

\* C11: update_certs calls delete_ssl exactly once and upload_ssl at most
\* once; an upload_ssl call comes after a delete_ssl call that succeeded; a
\* delete_ssl that got a non-success status makes update_certs return 1 with
\* no upload_ssl call, and one that raised ends the run with none either.
C11_DeleteThenUploadOnce ==
  /\ Cardinality(CallsOf("delete_ssl", 0)) <= 1
  /\ Cardinality(CallsOf("upload_ssl", 0)) <= 1
  /\ UpdateCertsEntered => Cardinality(CallsOf("delete_ssl", 0)) = 1
  /\ \A j \in CallsOf("upload_ssl", 0) :
       \E i \in CallsOf("delete_ssl", 0) : i < j /\ calls[i].res = "ok"
  /\ \A i \in CallsOf("delete_ssl", 0) :
       /\ calls[i].res = "http_error" =>
            (update_certs_status = 1 /\ pc = "done")
       /\ calls[i].res = "conn_error" =>
            (pc = "done" /\ result.kind = "raise")
       /\ calls[i].res # "ok" => ~Made("upload_ssl")

\* update_certs returned after delete_ssl got a non-success status
C11_Witness ==
  /\ pc = "done"
  /\ update_certs_status = 1
  /\ \E i \in CallsOf("delete_ssl", 0) : calls[i].res = "http_error"
  /\ ~Made("upload_ssl")

\* ---- C12 ---------------------------------------------------------------------
\* the calls made to the certificate authority
AuthorityOps ==
  {"new_account", "new_order", "respond", "poll", "finalize", "order_poll",
   "certificate"}
\* the four stages of the run at the authority, in the order of the program
StageOps == <<"new_account", "new_order", "finalize", "certificate">>
\* call i is a stage that did not succeed: a call outside the cleanup that
\* did not return, a registration that returned no account, or a status
\* fetch that ended on a status other than `valid`
StageFailed(i) ==
  \/ calls[i].op \notin CleanupOps /\ calls[i].res # "ok"
  \/ calls[i].op = "new_account" /\ calls[i].st = "None"
  \/ calls[i].op \in {"poll", "order_poll"} /\ calls[i].st # "valid"
\* call i is a stage that succeeded
StageSucceeded(i) ==
  /\ calls[i].res = "ok"
  /\ calls[i].op = "new_account" => calls[i].st = "account"

\* C12: new_account, new_order, finalize and certificate are each called at
\* most once, each after the stage before it succeeded (finalize after
\* order_auth returned 0 as well); after a stage that failed no later call
\* goes to the authority, and the run is at its end or on its way there
\* through the cleanup of the authorization.
C12_ForwardOnly ==
  /\ \A k \in DOMAIN StageOps : Cardinality(CallsOf(StageOps[k], 0)) <= 1
  /\ \A k \in 2..Len(StageOps) :
       \A j \in CallsOf(StageOps[k], 0) :
         \E i \in CallsOf(StageOps[k - 1], 0) : i < j /\ StageSucceeded(i)
  /\ Made("finalize") => order_auth_status = 0
  /\ \A i \in CallIdx :
       StageFailed(i) =>
         /\ \A j \in CallIdx :
              j > i => calls[j].op \notin AuthorityOps
         /\ pc \in {"done", "check_status", "check_order", "cleanup_url",
                    "cleanup_delete", "after_finally"}
         /\ pc = "after_finally" => pending # "none"

\* the run ended after finalize got a non-success status, every earlier
\* stage having been called once
C12_Witness ==
  /\ pc = "done"
  /\ \E i \in CallsOf("finalize", 0) : calls[i].res = "http_error"
  /\ Made("new_account") /\ Made("new_order") /\ Made("respond")
  /\ ~Made("certificate")

\* ---- C13 ---------------------------------------------------------------------
\* the calls made for an authorization
AuthCalls == {i \in CallIdx : calls[i].auth > 0}
\* call i shows that its authorization failed
AuthFailed(i) ==
  /\ calls[i].auth > 0
  /\ \/ calls[i].op \notin CleanupOps /\ calls[i].res # "ok"
     \/ calls[i].op = "poll" /\ calls[i].st # "valid"

\* C13: the calls of the run go through the authorizations in list order;
\* a call for a later authorization is made only after authorization a
\* reached `valid` and had its delete attempt; after a call that shows
\* authorization a failed, no call is made for a later authorization.
C13_OneAtATimeInOrder ==
  LET ac == AuthCalls IN
    /\ \A i, j \in ac : i < j => calls[i].auth <= calls[j].auth
    /\ \A j \in ac : calls[j].auth <= idx
    /\ \A a \in AuthIdx :
         LET later == {j \in ac : calls[j].auth > a} IN
           later # {} =>
             /\ ReachedValid(a)
             /\ \E i \in CallsOf("delete_url", a) : \A j \in later : i < j
    /\ \A i \in ac :
         AuthFailed(i) => \A j \in ac : calls[j].auth <= calls[i].auth

\* order_auth returned 1 on the first of two authorizations, whose challenge
\* ended `invalid`; the second one, of a supported type, got no call
C13_Witness ==
  /\ order_auth_status = 1
  /\ Len(authorizations) = 2
  /\ ~NoSupportedType(authorizations[2])
  /\ \E i \in CallsOf("poll", 1) : calls[i].st = "invalid"
  /\ Made("delete")
  /\ \A j \in AuthCalls : calls[j].auth = 1

\* ---- C14 ---------------------------------------------------------------------
\* scenario A has run to its end: the secret is set, the key files were
\* read, the target bucket is listed, the order has one authorization with
\* one http-01 challenge, every call succeeded, registration returned an
\* account and both status fetches ended on `valid`
ScenarioA ==
  /\ pc = "done"
  /\ bucket_access_key
  /\ exc = NoExc
  /\ \E i \in CallsOf("buckets", 0) : calls[i].st = "listed"
  /\ \E i \in CallsOf("new_account", 0) : calls[i].st = "account"
  /\ Len(authorizations) = 1
  /\ Len(authorizations[1]) = 1
  /\ authorizations[1][1].type = Http01
  /\ \A i \in CallIdx : calls[i].res = "ok"
  /\ \A i \in CallIdx :
       calls[i].op \in {"poll", "order_poll"} => calls[i].st = "valid"

\* C14: in scenario A the run obtains the certificate, calls upload_ssl
\* exactly once, the installed pair is that certificate with the private key
\* generated in this run, and set_s3_ssl returns 0.
C14_ScenarioAInstalls ==
  ScenarioA =>
    /\ Cardinality(CallsOf("certificate", 0)) = 1
    /\ certificate = "new_cert"
    /\ Cardinality(CallsOf("upload_ssl", 0)) = 1
    /\ private_key.id = "run_key"
    /\ ssl_slot = [certificate |-> "new_cert", private_key |-> "run_key"]
    /\ result = [kind |-> "return", val |-> 0]

\* scenario A ended with the upload made
C14_Witness ==
  /\ ScenarioA
  /\ \E i \in CallsOf("upload_ssl", 0) : calls[i].res = "ok"

\* ---- C15 ---------------------------------------------------------------------
\* the with block of set_s3_ssl was entered: both clients were built
SessionsOpened == Made("buckets")

\* C15: while the run is inside the with block both sessions are open, and
\* when set_s3_ssl has ended, by return, exit or exception, none is.
C15_SessionsClosedAtEnd ==
  /\ pc = "done" => http_open = {}
  /\ (SessionsOpened /\ pc # "done") =>
       http_open = {"object_storage", "acme_client"}

\* the run was ended by an exception raised inside the with block
C15_Witness ==
  /\ pc = "done"
  /\ SessionsOpened
  /\ result.kind = "raise"
  /\ http_open = {}

\* ---- C16 ---------------------------------------------------------------------
\* C16: a run whose bucket access key secret is missing makes no call to
\* the storage provider or to the authority, opens no session, generates no
\* key and no order, and when it has ended it has returned 1.
C16_MissingSecretMakesNoCall ==
  ~bucket_access_key =>
    /\ calls = <<>>
    /\ http_open = {}
    /\ private_key = NoKey
    /\ authorizations = <<>>
    /\ ssl_slot = OldCert
    /\ pc \in {"start", "done"}
    /\ pc = "done" => result = [kind |-> "return", val |-> 1]

\* the run without the secret has ended
C16_Witness ==
  /\ ~bucket_access_key
  /\ pc = "done"
  /\ result = [kind |-> "return", val |-> 1]

\* ---- C17 ---------------------------------------------------------------------
\* C17: a run called with a key size under 2048 bits produces no key pair
\* and makes no remote call.
C17_SmallKeyRejected ==
  s3_key_size < 2048 =>
    /\ private_key = NoKey
    /\ http_open = {}
    /\ calls = <<>>

\* ---- C18 ---------------------------------------------------------------------
\* every status fetch poll_until_not made for authorization a read a
\* transient status, up to the last one it makes
NeverLeftPending(a) ==
  /\ Cardinality(CallsOf("poll", a)) = PollLimit
  /\ \A i \in CallsOf("poll", a) :
       calls[i].res = "ok" /\ calls[i].st \in {"pending", "processing"}
\* the same for the poll of the order
OrderNeverLeftProcessing ==
  /\ Cardinality(CallsOf("order_poll", 0)) = PollLimit
  /\ \A i \in CallsOf("order_poll", 0) :
       calls[i].res = "ok" /\ calls[i].st = "processing"

\* no poll makes more than PollLimit status fetches; after a challenge poll
\* that never left the transient statuses the run is in the cleanup of the
\* authorization or at its end, it never goes on to finalize, and at its
\* end the delete attempt was made and the run failed; after an order poll
\* that never left `processing` the run has failed without a certificate
PollsBounded ==
  /\ \A a \in AuthIdx : Cardinality(CallsOf("poll", a)) <= PollLimit
  /\ Cardinality(CallsOf("order_poll", 0)) <= PollLimit
  /\ \A a \in AuthIdx :
       NeverLeftPending(a) =>
         /\ pc \in {"cleanup_url", "cleanup_delete", "after_finally", "done"}
         /\ pending \in {"return1", "raise"}
         /\ pending = "raise" => exc.kind \in {"timeout", "conn_error"}
         /\ ~Made("finalize")
         /\ pc = "done" =>
              /\ CallsOf("delete_url", a) # {}
              /\ result.kind \in {"exit", "raise"}
              /\ result.val = 1
  /\ OrderNeverLeftProcessing =>
       /\ pc = "done"
       /\ result.kind \in {"exit", "raise"}
       /\ result.val = 1
       /\ ~Made("certificate")

CertificateObtained ==
  \E i \in CallsOf("certificate", 0) : calls[i].res = "ok"

\* C19: delete_ssl and upload_ssl are called only after order.certificate()
\* returned, and a run that obtained no certificate leaves the installed
\* certificate as it found it.
C19_SlotUntouchedWithoutCertificate ==
  /\ \A j \in CallIdx :
       calls[j].op \in {"delete_ssl", "upload_ssl"} =>
         \E i \in CallsOf("certificate", 0) : i < j /\ calls[i].res = "ok"
  /\ ~CertificateObtained =>
       /\ ssl_slot = OldCert
       /\ update_certs_status = NotReturned
       /\ certificate = "none"

\* the run ended after order.certificate() got a non-success status
C19_Witness ==
  /\ pc = "done"
  /\ \E i \in CallsOf("certificate", 0) : calls[i].res = "http_error"
  /\ ssl_slot = OldCert

\* ---- C20 ---------------------------------------------------------------------
\* the bucket list came back without the target bucket
TargetAbsent ==
  \E i \in CallsOf("buckets", 0) :
    calls[i].res = "ok" /\ calls[i].st = "absent"

\* C20: when the bucket list holds no bucket with the cluster and the label
\* of the run, the listing is the only remote call of the run: no account is
\* registered, no order created, no proof object published, the installed
\* certificate is not touched, and set_s3_ssl returns 1.
C20_NoBucketNoAction ==
  TargetAbsent =>
    /\ Len(calls) = 1
    /\ account = "none"
    /\ authorizations = <<>>
    /\ bucket = {}
    /\ ssl_slot = OldCert
    /\ pc = "done"
    /\ result = [kind |-> "return", val |-> 1]
    /\ http_open = {}

\* the run ended on a bucket list without the target bucket
C20_Witness ==
  /\ TargetAbsent
  /\ pc = "done"
  /\ result = [kind |-> "return", val |-> 1]
  /\ private_key.id = "run_key"

====
